---- MODULE Spec2Model ----
(***************************************************************************)
(* Model of seqan_align.cpp (Unicycler): the k-mer indexer, the common-    *)
(* location finder, the seed chain plausibility filter and the CIGAR /     *)
(* statistics builder of semiGlobalAlign.                                  *)
(*                                                                         *)
(* Strings are sequences of one-character strings.  The SeqAn calls        *)
(* (addSeed, chainSeedsGlobally, bandedChainAlignment) are library code:   *)
(* what they hand back (the seed chain, the two alignment rows) is drawn   *)
(* nondeterministically from bounded sets.                                 *)
(***************************************************************************)
EXTENDS Integers, Sequences, FiniteSets, TLC

VARIABLES
    pc,                     \* position inside semiGlobalAlign
    result,                 \* the returned C string; <<"<none>">> before the return
    \* ---- k-mer stage (lines 55-59)
    s1Str, s2Str, s1Len, s2Len, kSize, s1Kmers, s2Kmers, commonLocations, exception,
    \* ---- chain filter stage (lines 82-94)
    seedChain, allowedLengthDiscrepancy, seq1Span, seq2Span,
    \* ---- CIGAR stage (lines 108-235)
    s1Alignment, s2Alignment, i,
    cigarString, currentCigarType, currentCigarLength,
    matchCount, mismatchCount, insertionCount, deletionCount,
    s2MismatchPositions, s2InsertionPositions, s2DeletionPositions,
    s1Start, s2Start, s1Bases, s2Bases, alignmentStarted,
    s1End, s2End, editDistance, alignedLength, percentIdentity, milliseconds

kmerVars == <<s1Str, s2Str, s1Len, s2Len, kSize, s1Kmers, s2Kmers, commonLocations,
              exception>>

filterVars == <<seedChain, allowedLengthDiscrepancy, seq1Span, seq2Span>>

loopVars == <<i, cigarString, currentCigarType, currentCigarLength,
              matchCount, mismatchCount, insertionCount, deletionCount,
              s2MismatchPositions, s2InsertionPositions, s2DeletionPositions,
              s1Start, s2Start, s1Bases, s2Bases, alignmentStarted>>

finalVars == <<s1End, s2End, editDistance, alignedLength, percentIdentity, milliseconds>>

cigarVars == <<s1Alignment, s2Alignment, loopVars, finalVars>>

vars == <<pc, result, kmerVars, filterVars, cigarVars>>

----------------------------------------------------------------------------
(* Bounds *)

\* longest aligned pair enumerated over all column kinds
MaxLen == 4

\* longest gap-free self-alignment (long enough for a two-digit run length)
MaxSelfLen == 10

\* largest elapsed time reported
MaxMillis == 1

\* longest input sequence of the k-mer stage
MaxSeqLen == 4

\* the k-mer size ranges over -MaxNegK .. MaxSeqLen + 1
MaxNegK == 2

\* largest seed coordinate of the chain filter stage
MaxPos == 3

\* allowedLengthDiscrepancy ranges over -1/AldDen .. MaxAldNum/AldDen
MaxAldNum == 5

----------------------------------------------------------------------------
(* Values *)

Bases == {"A", "C"}

Gap == "-"

NoResult == <<"<none>">>

EmptyString == <<>>

Max(a, b) == IF a > b THEN a ELSE b

Min(a, b) == IF a < b THEN a ELSE b

\* the value of a local variable before its first assignment / the idle stage
Unset == "unset"

\* the locals of a stage the specification at hand does not run
KmerStageIdle ==
    /\ s1Str = Unset /\ s2Str = Unset /\ s1Len = Unset /\ s2Len = Unset /\ kSize = Unset
    /\ s1Kmers = Unset /\ s2Kmers = Unset /\ commonLocations = Unset
    /\ exception = Unset

FilterStageIdle ==
    /\ seedChain = Unset /\ allowedLengthDiscrepancy = Unset
    /\ seq1Span = Unset /\ seq2Span = Unset

LoopLocalsUnset ==
    /\ i = Unset /\ cigarString = Unset
    /\ currentCigarType = Unset /\ currentCigarLength = Unset
    /\ matchCount = Unset /\ mismatchCount = Unset
    /\ insertionCount = Unset /\ deletionCount = Unset
    /\ s2MismatchPositions = Unset /\ s2InsertionPositions = Unset
    /\ s2DeletionPositions = Unset
    /\ s1Start = Unset /\ s2Start = Unset /\ s1Bases = Unset /\ s2Bases = Unset
    /\ alignmentStarted = Unset

FinalLocalsUnset ==
    /\ s1End = Unset /\ s2End = Unset /\ editDistance = Unset
    /\ alignedLength = Unset /\ percentIdentity = Unset /\ milliseconds = Unset

CigarStageIdle ==
    /\ s1Alignment = Unset /\ s2Alignment = Unset
    /\ LoopLocalsUnset
    /\ FinalLocalsUnset

----------------------------------------------------------------------------
(* std::to_string and string helpers *)

DigitChars == <<"0", "1", "2", "3", "4", "5", "6", "7", "8", "9">>

RECURSIVE NatToString(_)
NatToString(n) ==
    IF n < 10 THEN <<DigitChars[n + 1]>>
    ELSE NatToString(n \div 10) \o <<DigitChars[(n % 10) + 1]>>

\* std::to_string(int)
IntToString(n) == IF n < 0 THEN <<"-">> \o NatToString(-n) ELSE NatToString(n)

RECURSIVE PadLeft(_, _)
PadLeft(str, width) == IF Len(str) >= width THEN str ELSE PadLeft(<<"0">> \o str, width)

\* The operands of the floating point division of line 206.
Quotient(num, den) == [num |-> num, den |-> den]

\* std::to_string(double) is printf("%f"): six decimals, rounded to nearest.
\* A zero divisor makes the quotient 0.0/0.0, which prints as nan or -nan
\* depending on the platform (sign is passed in).
DoubleToString(q, nanSign) ==
    IF q.den = 0 THEN nanSign \o <<"n", "a", "n">>
    ELSE LET whole == q.num \div q.den
             rest  == q.num % q.den
             frac  == (2 * rest * 1000000 + q.den) \div (2 * q.den)
             carry == IF frac >= 1000000 THEN 1 ELSE 0
         IN  NatToString(whole + carry) \o <<".">>
                 \o PadLeft(NatToString(frac - carry * 1000000), 6)

\* vectorToString (lines 253-263)
RECURSIVE vectorToString(_)
vectorToString(v) ==
    IF Len(v) = 0 THEN EmptyString
    ELSE IF Len(v) = 1 THEN IntToString(v[1])
    ELSE vectorToString(SubSeq(v, 1, Len(v) - 1)) \o <<";">> \o IntToString(v[Len(v)])

----------------------------------------------------------------------------
(* CIGAR helpers *)

\* getCigarType with the two gap branches exchanged
getCigarTypeSwapped(b1, b2, started) ==
    IF b1 = Gap THEN (IF started THEN "INSERTION" ELSE "CLIP")
    ELSE IF b2 = Gap THEN (IF started THEN "DELETION" ELSE "NOTHING")
    ELSE "MATCH"

\* getCigarType (lines 265-283)
getCigarType(b1, b2, started) ==
    IF b1 = Gap THEN (IF started THEN "DELETION" ELSE "NOTHING")
    ELSE IF b2 = Gap THEN (IF started THEN "INSERTION" ELSE "CLIP")
    ELSE "MATCH"

\* getCigarPart writing the run length one too small
getCigarPartShort(type, length) ==
    IF type = "DELETION" THEN <<"D">> \o IntToString(length - 1)
    ELSE IF type = "INSERTION" THEN <<"I">> \o IntToString(length - 1)
    ELSE IF type = "CLIP" THEN <<"S">> \o IntToString(length - 1)
    ELSE IF type = "MATCH" THEN <<"M">> \o IntToString(length - 1)
    ELSE EmptyString

\* getCigarPart (lines 285-300)
getCigarPart(type, length) ==
    IF type = "DELETION" THEN <<"D">> \o IntToString(length)
    ELSE IF type = "INSERTION" THEN <<"I">> \o IntToString(length)
    ELSE IF type = "CLIP" THEN <<"S">> \o IntToString(length)
    ELSE IF type = "MATCH" THEN <<"M">> \o IntToString(length)
    ELSE EmptyString

----------------------------------------------------------------------------
(* Inputs of the CIGAR stage: the two rows bandedChainAlignment leaves in  *)
(* the Align object.  A column is one traceback step, so it holds a base   *)
(* in at least one row.                                                    *)

Columns == ((Bases \cup {Gap}) \X (Bases \cup {Gap})) \ {<<Gap, Gap>>}

\* seq1 = ACGTACGT against seq2 = ACGTTACGT, the extra T opposite a gap
ScenarioRow1 == <<"A", "C", "G", "T", "-", "A", "C", "G", "T">>

ScenarioRow2 == <<"A", "C", "G", "T", "T", "A", "C", "G", "T">>

ScenarioPair == [k \in 1..Len(ScenarioRow1) |-> <<ScenarioRow1[k], ScenarioRow2[k]>>]

\* a sequence aligned against itself: two identical gap-free rows
SelfPairs ==
    UNION {{[k \in 1..n |-> <<r[k], r[k]>>] : r \in [1..n -> Bases]} : n \in 1..MaxSelfLen}

AlignedPairs ==
    UNION {[1..n -> Columns] : n \in 0..MaxLen} \cup SelfPairs \cup {ScenarioPair}

Row(pair, r) == [k \in 1..Len(pair) |-> pair[k][r]]

----------------------------------------------------------------------------
(* CIGAR stage of semiGlobalAlign *)

\* lines 108-115: the rows have been printed into s1Alignment / s2Alignment
InitCigar ==
    /\ pc = "extracted"
    /\ result = NoResult
    /\ \E pair \in AlignedPairs :
          /\ s1Alignment = Row(pair, 1)
          /\ s2Alignment = Row(pair, 2)
    /\ KmerStageIdle
    /\ FilterStageIdle
    /\ LoopLocalsUnset
    /\ FinalLocalsUnset

\* line 117
alignmentLength == Max(Len(s1Alignment), Len(s2Alignment))

\* lines 117-134: the empty-alignment return and the declarations of the pass
CheckAlignmentLength ==
    /\ pc = "extracted"
    /\ IF alignmentLength = 0
       THEN /\ result' = EmptyString
            /\ pc' = "done"
            /\ UNCHANGED loopVars
       ELSE /\ pc' = "loop"
            /\ i' = 0
            /\ cigarString' = EmptyString
            /\ currentCigarType' = Unset
            /\ currentCigarLength' = 0
            /\ matchCount' = 0
            /\ mismatchCount' = 0
            /\ insertionCount' = 0
            /\ deletionCount' = 0
            /\ s2MismatchPositions' = <<>>
            /\ s2InsertionPositions' = <<>>
            /\ s2DeletionPositions' = <<>>
            /\ s1Start' = -1
            /\ s2Start' = -1
            /\ s1Bases' = 0
            /\ s2Bases' = 0
            /\ alignmentStarted' = FALSE
            /\ UNCHANGED result
    /\ UNCHANGED <<kmerVars, filterVars, s1Alignment, s2Alignment, finalVars>>

\* lines 135-185: one iteration of the column loop
CigarColumn ==
    /\ pc = "loop"
    /\ i < alignmentLength
    /\ LET base1 == s1Alignment[i + 1]
           base2 == s2Alignment[i + 1]
           starts == base1 # Gap /\ base2 # Gap /\ ~alignmentStarted
           started == alignmentStarted \/ starts
           cigarType == getCigarType(base1, base2, started)
           current == IF i = 0 THEN cigarType ELSE currentCigarType
       IN  /\ s1Start' = IF starts THEN s1Bases ELSE s1Start
           /\ s2Start' = IF starts THEN s2Bases ELSE s2Start
           /\ alignmentStarted' = started
           /\ matchCount' =
                 IF cigarType = "MATCH" /\ base1 = base2 THEN matchCount + 1 ELSE matchCount
           /\ mismatchCount' =
                 IF cigarType = "MATCH" /\ base1 # base2 THEN mismatchCount + 1
                 ELSE mismatchCount
           /\ s2MismatchPositions' =
                 IF cigarType = "MATCH" /\ base1 # base2
                 THEN Append(s2MismatchPositions, s2Bases) ELSE s2MismatchPositions
           /\ deletionCount' =
                 IF cigarType = "DELETION" THEN deletionCount + 1 ELSE deletionCount
           /\ s2DeletionPositions' =
                 IF cigarType = "DELETION"
                 THEN Append(s2DeletionPositions, s2Bases) ELSE s2DeletionPositions
           /\ insertionCount' =
                 IF cigarType = "INSERTION" THEN insertionCount + 1 ELSE insertionCount
           /\ s2InsertionPositions' =
                 IF cigarType = "INSERTION"
                 THEN Append(s2InsertionPositions, s2Bases) ELSE s2InsertionPositions
           /\ IF cigarType = current
              THEN /\ currentCigarLength' = currentCigarLength + 1
                   /\ currentCigarType' = current
                   /\ cigarString' = cigarString
              ELSE /\ cigarString' = cigarString \o getCigarPart(current, currentCigarLength)
                   /\ currentCigarType' = cigarType
                   /\ currentCigarLength' = 1
           /\ s1Bases' = IF base1 # Gap THEN s1Bases + 1 ELSE s1Bases
           /\ s2Bases' = IF base2 # Gap THEN s2Bases + 1 ELSE s2Bases
    /\ i' = i + 1
    /\ pc' = "loop"
    /\ UNCHANGED <<result, kmerVars, filterVars, s1Alignment, s2Alignment, finalVars>>

\* lines 209-224; f holds the values of the locals named by its fields
finalString(f) ==
    f.cigarString \o <<",">> \o
    IntToString(f.s1Start) \o <<",">> \o
    IntToString(f.s1End) \o <<",">> \o
    IntToString(f.s2Start) \o <<",">> \o
    IntToString(f.s2End) \o <<",">> \o
    IntToString(f.alignedLength) \o <<",">> \o
    IntToString(f.matchCount) \o <<",">> \o
    IntToString(f.mismatchCount) \o <<",">> \o
    vectorToString(f.s2MismatchPositions) \o <<",">> \o
    IntToString(f.insertionCount) \o <<",">> \o
    vectorToString(f.s2InsertionPositions) \o <<",">> \o
    IntToString(f.deletionCount) \o <<",">> \o
    vectorToString(f.s2DeletionPositions) \o <<",">> \o
    IntToString(f.editDistance) \o <<",">> \o
    DoubleToString(f.percentIdentity, f.nanSign) \o <<",">> \o
    IntToString(f.milliseconds)

\* lines 187-235: the trailing-run correction, the statistics and the record
Finish ==
    /\ pc = "loop"
    /\ i >= alignmentLength
    /\ \E ms \in 0..MaxMillis, nanSign \in {<<>>, <<"-">>} :
       LET trailingIns == currentCigarType = "INSERTION"
           trailingDel == currentCigarType # "INSERTION" /\ currentCigarType = "DELETION"
           lastType == IF trailingIns THEN "CLIP"
                       ELSE IF trailingDel THEN "NOTHING" ELSE currentCigarType
           ins == IF trailingIns THEN insertionCount - currentCigarLength ELSE insertionCount
           del == IF trailingDel THEN deletionCount - currentCigarLength ELSE deletionCount
           end1 == IF trailingIns THEN s1Bases - currentCigarLength ELSE s1Bases
           end2 == IF trailingDel THEN s2Bases - currentCigarLength ELSE s2Bases
           cigar == cigarString \o getCigarPart(lastType, currentCigarLength)
           edits == mismatchCount + ins + del
           aligned == matchCount + mismatchCount + ins + del
           identity == Quotient(100 * matchCount, aligned)
       IN  /\ aligned = 0 \/ nanSign = <<>>
           /\ currentCigarType' = lastType
           /\ insertionCount' = ins
           /\ deletionCount' = del
           /\ s1End' = end1
           /\ s2End' = end2
           /\ cigarString' = cigar
           /\ editDistance' = edits
           /\ alignedLength' = aligned
           /\ percentIdentity' = identity
           /\ milliseconds' = ms
           /\ result' = finalString([cigarString |-> cigar,
                                     s1Start |-> s1Start, s1End |-> end1,
                                     s2Start |-> s2Start, s2End |-> end2,
                                     alignedLength |-> aligned,
                                     matchCount |-> matchCount,
                                     mismatchCount |-> mismatchCount,
                                     s2MismatchPositions |-> s2MismatchPositions,
                                     insertionCount |-> ins,
                                     s2InsertionPositions |-> s2InsertionPositions,
                                     deletionCount |-> del,
                                     s2DeletionPositions |-> s2DeletionPositions,
                                     editDistance |-> edits,
                                     percentIdentity |-> identity,
                                     nanSign |-> nanSign,
                                     milliseconds |-> ms])
    /\ pc' = "done"
    /\ UNCHANGED <<kmerVars, filterVars, s1Alignment, s2Alignment, i, currentCigarLength,
                   matchCount, mismatchCount, s2MismatchPositions, s2InsertionPositions,
                   s2DeletionPositions, s1Start, s2Start, s1Bases, s2Bases,
                   alignmentStarted>>

NextCigar == CheckAlignmentLength \/ CigarColumn \/ Finish

Spec == InitCigar /\ [][NextCigar]_vars

----------------------------------------------------------------------------
(* Reading the returned record back, as a caller does *)

RECURSIVE Split(_, _)
Split(str, sep) ==
    IF \E k \in 1..Len(str) : str[k] = sep
    THEN LET at == CHOOSE k \in 1..Len(str) :
                      str[k] = sep /\ \A j \in 1..(k - 1) : str[j] # sep
         IN  <<SubSeq(str, 1, at - 1)>> \o Split(SubSeq(str, at + 1, Len(str)), sep)
    ELSE <<str>>

IsDigit(c) == \E d \in 1..10 : DigitChars[d] = c

DigitValue(c) == (CHOOSE d \in 1..10 : DigitChars[d] = c) - 1

RECURSIVE StringToNat(_)
StringToNat(str) ==
    IF Len(str) = 0 THEN 0
    ELSE 10 * StringToNat(SubSeq(str, 1, Len(str) - 1)) + DigitValue(str[Len(str)])

StringToInt(str) ==
    IF Len(str) > 0 /\ str[1] = "-" THEN 0 - StringToNat(Tail(str)) ELSE StringToNat(str)

IsNumber(str) == Len(str) > 0 /\ \A k \in 1..Len(str) : IsDigit(str[k])

IsDecimal(str) ==
    \E dot \in 2..(Len(str) - 1) :
        /\ str[dot] = "."
        /\ IsNumber(SubSeq(str, 1, dot - 1))
        /\ IsNumber(SubSeq(str, dot + 1, Len(str)))

OpLetters == {"M", "I", "D", "S"}

\* the runs of a CIGAR written as the operation letter followed by the length
RECURSIVE ParseRuns(_)
ParseRuns(str) ==
    IF Len(str) = 0 THEN <<>>
    ELSE LET next == IF \E k \in 2..Len(str) : str[k] \in OpLetters
                     THEN CHOOSE k \in 2..Len(str) :
                              str[k] \in OpLetters /\ \A j \in 2..(k - 1) : str[j] \notin OpLetters
                     ELSE Len(str) + 1
         IN  <<[op |-> str[1], len |-> StringToNat(SubSeq(str, 2, next - 1))]>>
                 \o ParseRuns(SubSeq(str, next, Len(str)))

RECURSIVE SumRuns(_, _)
SumRuns(runs, ops) ==
    IF Len(runs) = 0 THEN 0
    ELSE (IF runs[1].op \in ops THEN runs[1].len ELSE 0) + SumRuns(Tail(runs), ops)

\* a concatenation of <length><opLetter> tokens
IsLengthThenLetter(str) ==
    /\ \A k \in 1..Len(str) : IsDigit(str[k]) \/ str[k] \in OpLetters
    /\ Len(str) > 0 => IsDigit(str[1]) /\ str[Len(str)] \in OpLetters
    /\ \A k \in 2..Len(str) : str[k] \in OpLetters => IsDigit(str[k - 1])

\* number of entries of a ;-separated list
Entries(str) == IF Len(str) = 0 THEN 0 ELSE Len(Split(str, ";"))

RecordBuilt == pc = "done" /\ result # EmptyString

Fields == Split(result, ",")

OutCigar == Fields[1]

OutRuns == ParseRuns(OutCigar)

OutS1Start == StringToInt(Fields[2])

OutS1End == StringToInt(Fields[3])

OutS2Start == StringToInt(Fields[4])

OutS2End == StringToInt(Fields[5])

OutAlignedLength == StringToInt(Fields[6])

OutMatchCount == StringToInt(Fields[7])

OutMismatchCount == StringToInt(Fields[8])

OutMismatchPositions == Fields[9]

OutInsertionCount == StringToInt(Fields[10])

OutInsertionPositions == Fields[11]

OutDeletionCount == StringToInt(Fields[12])

OutDeletionPositions == Fields[13]

OutEditDistance == StringToInt(Fields[14])

OutPercentIdentity == Fields[15]

(* The aligned pair, column by column *)

ColumnCount == Len(s1Alignment)

BothCols == {k \in 1..ColumnCount : s1Alignment[k] # Gap /\ s2Alignment[k] # Gap}

HasBothCol == BothCols # {}

FirstBothCol == CHOOSE k \in BothCols : \A j \in BothCols : k <= j

LastBothCol == CHOOSE k \in BothCols : \A j \in BothCols : j <= k

\* gap columns of row r (1 or 2) after the first column holding two bases
GapColsAfterStart(r) ==
    IF HasBothCol
    THEN {k \in 1..ColumnCount : k > FirstBothCol
              /\ (IF r = 1 THEN s1Alignment[k] ELSE s2Alignment[k]) = Gap}
    ELSE {}

\* gap columns of row r strictly between the first and the last column holding two bases
GapColsInside(r) == {k \in GapColsAfterStart(r) : k < LastBothCol}

\* the columns of the final run when that run is a gap run in row r
FinalGapRun(r) ==
    {k \in GapColsAfterStart(r) :
        \A j \in k..ColumnCount : (IF r = 1 THEN s1Alignment[j] ELSE s2Alignment[j]) = Gap}

SelfAligned ==
    /\ ColumnCount >= 1
    /\ \A k \in 1..ColumnCount : s1Alignment[k] # Gap /\ s1Alignment[k] = s2Alignment[k]

IsScenario == s1Alignment = ScenarioRow1 /\ s2Alignment = ScenarioRow2

----------------------------------------------------------------------------
(* Claims about the CIGAR stage *)

\* C1: in every non-empty result the M and I run lengths of the CIGAR add up to
\* s1End - s1Start and the M and D run lengths add up to s2End - s2Start.
C1_CigarReconstructsLengths ==
    RecordBuilt =>
        /\ SumRuns(OutRuns, {"M", "I"}) = OutS1End - OutS1Start
        /\ SumRuns(OutRuns, {"M", "D"}) = OutS2End - OutS2Start

\* C2: in every non-empty result each position list has as many entries as the
\* count reported next to it, also after the trailing-run correction.
C2_PositionListCardinality ==
    RecordBuilt =>
        /\ Entries(OutMismatchPositions) = OutMismatchCount
        /\ Entries(OutInsertionPositions) = OutInsertionCount
        /\ Entries(OutDeletionPositions) = OutDeletionCount

\* C3: the CIGAR field of every non-empty result is a concatenation of tokens
\* written as the run length followed by the operation letter.
C3_CigarLengthThenLetter == RecordBuilt => IsLengthThenLetter(OutCigar)

\* C4: a sequence of length n >= 1 aligned against itself yields one Match run of
\* length n, coordinates 0..n on both sequences, matchCount = n, no mismatch,
\* insertion or deletion, empty position lists, editDistance 0 and identity 100.
C4_IdentityProperty ==
    RecordBuilt /\ SelfAligned =>
        /\ OutRuns = <<[op |-> "M", len |-> ColumnCount]>>
        /\ OutS1Start = 0 /\ OutS2Start = 0
        /\ OutS1End = ColumnCount /\ OutS2End = ColumnCount
        /\ OutMatchCount = ColumnCount
        /\ OutAlignedLength = ColumnCount
        /\ OutMismatchCount = 0 /\ OutInsertionCount = 0 /\ OutDeletionCount = 0
        /\ OutMismatchPositions = EmptyString
        /\ OutInsertionPositions = EmptyString
        /\ OutDeletionPositions = EmptyString
        /\ OutEditDistance = 0
        /\ OutPercentIdentity = <<"1", "0", "0", ".", "0", "0", "0", "0", "0", "0">>

C4_Witness == RecordBuilt /\ SelfAligned /\ ColumnCount >= 10

\* C7: when the pass ends with alignedLength = 0 the result reports a defined
\* percentIdentity value and no division by zero takes place.
C7_DegenerateIdentityDefined ==
    RecordBuilt /\ alignedLength = 0 =>
        /\ percentIdentity.den # 0
        /\ IsDecimal(OutPercentIdentity)

\* C9 as claimed: the extra seq2 base of ACGT-ACGT over ACGTTACGT is reported as
\* one insertion (a 1-base I run between two 4-base M runs), and in general a
\* seq2 base without counterpart in seq1 inside the aligned region is an insertion.
C9_GapInSeq1IsInsertion ==
    RecordBuilt /\ IsScenario =>
        /\ OutS1Start = 0 /\ OutS1End = 8 /\ OutS2Start = 0 /\ OutS2End = 9
        /\ OutInsertionCount = 1
        /\ OutEditDistance = 1
        /\ OutAlignedLength = 9
        /\ OutMatchCount = 8
        /\ OutRuns = <<[op |-> "M", len |-> 4], [op |-> "I", len |-> 1],
                       [op |-> "M", len |-> 4]>>

\* C9 amended: the extra seq2 base of ACGT-ACGT over ACGTTACGT is reported as one
\* deletion (a 1-base D run between two 4-base M runs, insertionCount 0), and in
\* general a seq2 base opposite a gap in seq1 after the alignment start is counted
\* as a deletion and a seq1 base opposite a gap in seq2 as an insertion, the final
\* gap run excepted.
C9_GapInSeq1IsDeletion ==
    /\ RecordBuilt /\ IsScenario =>
          /\ OutS1Start = 0 /\ OutS1End = 8 /\ OutS2Start = 0 /\ OutS2End = 9
          /\ OutDeletionCount = 1
          /\ OutInsertionCount = 0
          /\ OutEditDistance = 1
          /\ OutAlignedLength = 9
          /\ OutMatchCount = 8
          /\ OutRuns = <<[op |-> "M", len |-> 4], [op |-> "D", len |-> 1],
                         [op |-> "M", len |-> 4]>>
    /\ RecordBuilt =>
          /\ OutDeletionCount = Cardinality(GapColsAfterStart(1) \ FinalGapRun(1))
          /\ OutInsertionCount = Cardinality(GapColsAfterStart(2) \ FinalGapRun(2))
          /\ SumRuns(OutRuns, {"D"}) = OutDeletionCount
          /\ SumRuns(OutRuns, {"I"}) = OutInsertionCount

C9_Witness == RecordBuilt /\ IsScenario /\ OutDeletionCount = 1

\* C10: every gap column before the first or after the last column holding two
\* bases is a clip: it is counted in no insertion, deletion, edit distance or
\* aligned length, lies in no I or D run, and no emitted run has length 0.
C10_FreeEndGaps ==
    RecordBuilt =>
        /\ OutInsertionCount = Cardinality(GapColsInside(2))
        /\ OutDeletionCount = Cardinality(GapColsInside(1))
        /\ OutEditDistance = OutMismatchCount + Cardinality(GapColsInside(1))
                                 + Cardinality(GapColsInside(2))
        /\ OutAlignedLength = Cardinality(BothCols) + Cardinality(GapColsInside(1))
                                  + Cardinality(GapColsInside(2))
        /\ SumRuns(OutRuns, {"I"}) = Cardinality(GapColsInside(2))
        /\ SumRuns(OutRuns, {"D"}) = Cardinality(GapColsInside(1))
        /\ \A k \in 1..Len(OutRuns) : OutRuns[k].len >= 1

----------------------------------------------------------------------------
(* K-mer stage: getSeqKmers and getCommonLocations (lines 55-59, 302-347) *)

\* std::string::substr(pos, count): count is a size_t, so a negative int asks
\* for the rest of the string; the caller has checked pos <= size()
substr(seq, pos, count) ==
    LET wanted == IF count < 0 THEN Len(seq) ELSE count
    IN  SubSeq(seq, pos + 1, Min(pos + wanted, Len(seq)))

\* getSeqKmers (lines 303-314).  reserve() of a negative count throws
\* std::length_error, substr() at a position past the end std::out_of_range.
getSeqKmers(seq, strLen, k) ==
    LET kCount == strLen - k
    IN  IF kCount < 0
        THEN [exception |-> "length_error", kmers |-> <<>>]
        ELSE IF \E n \in 0..(kCount - 1) : n > Len(seq)
        THEN [exception |-> "out_of_range", kmers |-> <<>>]
        ELSE [exception |-> "none",
              kmers |-> [n \in 1..kCount |-> <<substr(seq, n - 1, k), n - 1, n - 1 + k>>]]

\* the map keeping the first occurrence of a k-mer content instead of the last
RECURSIVE s1KmerPositionsFirstWins(_)
s1KmerPositionsFirstWins(kmers) ==
    IF Len(kmers) = 0 THEN [c \in {} |-> <<>>]
    ELSE LET before == s1KmerPositionsFirstWins(SubSeq(kmers, 1, Len(kmers) - 1))
             last == kmers[Len(kmers)]
         IN  [c \in DOMAIN before \cup {last[1]} |->
                 IF c \in DOMAIN before THEN before[c] ELSE <<last[2], last[3]>>]

\* lines 321-328: the map of k-mer content -> positions, filled in list order
RECURSIVE s1KmerPositions(_)
s1KmerPositions(kmers) ==
    IF Len(kmers) = 0 THEN [c \in {} |-> <<>>]
    ELSE LET before == s1KmerPositions(SubSeq(kmers, 1, Len(kmers) - 1))
             last == kmers[Len(kmers)]
         IN  [c \in DOMAIN before \cup {last[1]} |->
                 IF c = last[1] THEN <<last[2], last[3]>> ELSE before[c]]

\* lines 330-344: one CommonLocation per s2 k-mer found in the map
RECURSIVE commonWith(_, _)
commonWith(dict, kmers) ==
    IF Len(kmers) = 0 THEN <<>>
    ELSE LET kmer == kmers[1]
         IN  (IF kmer[1] \in DOMAIN dict
              THEN <<<<dict[kmer[1]][1], dict[kmer[1]][2], kmer[2], kmer[3]>>>>
              ELSE <<>>) \o commonWith(dict, Tail(kmers))

\* getCommonLocations (lines 317-347)
getCommonLocations(kmers1, kmers2) == commonWith(s1KmerPositions(kmers1), kmers2)

InputSequences == UNION {[1..n -> Bases] : n \in 0..MaxSeqLen}

KSizes == (0 - MaxNegK)..(MaxSeqLen + 1)

\* entry of semiGlobalAlign; the caller passes the lengths of the two strings
InitKmers ==
    /\ pc = "s1Kmers"
    /\ result = NoResult
    /\ s1Str \in InputSequences
    /\ s2Str \in InputSequences
    /\ s1Len = Len(s1Str)
    /\ s2Len = Len(s2Str)
    /\ kSize \in KSizes
    /\ s1Kmers = Unset
    /\ s2Kmers = Unset
    /\ commonLocations = Unset
    /\ exception = "none"
    /\ FilterStageIdle
    /\ CigarStageIdle

\* line 57
GetS1Kmers ==
    /\ pc = "s1Kmers"
    /\ LET got == getSeqKmers(s1Str, s1Len, kSize)
       IN  /\ exception' = got.exception
           /\ s1Kmers' = IF got.exception = "none" THEN got.kmers ELSE s1Kmers
           /\ pc' = IF got.exception = "none" THEN "s2Kmers" ELSE "s1KmersThrew"
    /\ UNCHANGED <<result, s1Str, s2Str, s1Len, s2Len, kSize, s2Kmers, commonLocations,
                   filterVars, cigarVars>>

\* line 58
GetS2Kmers ==
    /\ pc = "s2Kmers"
    /\ LET got == getSeqKmers(s2Str, s2Len, kSize)
       IN  /\ exception' = got.exception
           /\ s2Kmers' = IF got.exception = "none" THEN got.kmers ELSE s2Kmers
           /\ pc' = IF got.exception = "none" THEN "commonLocations" ELSE "s2KmersThrew"
    /\ UNCHANGED <<result, s1Str, s2Str, s1Len, s2Len, kSize, s1Kmers, commonLocations,
                   filterVars, cigarVars>>

\* line 59
GetCommonLocations ==
    /\ pc = "commonLocations"
    /\ commonLocations' = getCommonLocations(s1Kmers, s2Kmers)
    /\ pc' = "seeding"
    /\ UNCHANGED <<result, s1Str, s2Str, s1Len, s2Len, kSize, s1Kmers, s2Kmers, exception,
                   filterVars, cigarVars>>

NextKmers == GetS1Kmers \/ GetS2Kmers \/ GetCommonLocations

SpecKmers == InitKmers /\ [][NextKmers]_vars

----------------------------------------------------------------------------
(* Claims about the k-mer stage *)

\* the state right after the call of line 57 / of line 58
S1KmersCalled == pc \in {"s2Kmers", "s1KmersThrew"}

S2KmersCalled == pc \in {"commonLocations", "s2KmersThrew"}

KmersAsSpecified(seq, strLen, kmers) ==
    /\ exception = "none"
    /\ IF kSize <= 0 \/ kSize >= strLen
       THEN kmers = <<>>
       ELSE /\ Len(kmers) = strLen - kSize
            /\ \A n \in 1..(strLen - kSize) :
                  kmers[n] = <<SubSeq(seq, n, n + kSize - 1), n - 1, n - 1 + kSize>>

\* C6: for kSize <= 0 or kSize >= strLen getSeqKmers returns an empty list and
\* does not fail; for kSize in 1..strLen-1 it returns the strLen - kSize records
\* (seq[i, i+kSize), i, i+kSize).
C6_KmerIndexerDegenerate ==
    /\ S1KmersCalled => KmersAsSpecified(s1Str, s1Len, s1Kmers)
    /\ S2KmersCalled => KmersAsSpecified(s2Str, s2Len, s2Kmers)

\* indices of the s2 k-mers whose content occurs among the s1 k-mers
SharedS2 == {j \in 1..Len(s2Kmers) : \E k \in 1..Len(s1Kmers) : s1Kmers[k][1] = s2Kmers[j][1]}

LastInS1(content) ==
    CHOOSE k \in 1..Len(s1Kmers) :
        /\ s1Kmers[k][1] = content
        /\ \A m \in 1..Len(s1Kmers) : s1Kmers[m][1] = content => m <= k

\* C8: getCommonLocations emits one CommonLocation for each seq2 k-mer whose
\* content occurs among the seq1 k-mers and none for the others, in seq2 k-mer
\* order, with the seq1 coordinates of the last seq1 occurrence of the content
\* and the seq2 coordinates of the seq2 k-mer.
C8_CommonLocations ==
    pc = "seeding" =>
        /\ Len(commonLocations) = Cardinality(SharedS2)
        /\ \A j \in SharedS2 :
              LET rank == Cardinality({m \in SharedS2 : m <= j})
                  from == s1Kmers[LastInS1(s2Kmers[j][1])]
              IN  commonLocations[rank] = <<from[2], from[3], s2Kmers[j][2], s2Kmers[j][3]>>

C8_Witness ==
    /\ pc = "seeding"
    /\ kSize >= 1
    /\ Len(commonLocations) >= 2
    /\ \E j \in 1..Len(s2Kmers) : j \notin SharedS2
    /\ \E j \in SharedS2 : \E k \in 1..Len(s1Kmers) :
          s1Kmers[k][1] = s2Kmers[j][1] /\ k < LastInS1(s2Kmers[j][1])

----------------------------------------------------------------------------
(* Chain plausibility filter (lines 82-94) *)

\* Doubles are kept as exact quotients.  The discrepancies enumerated below are
\* multiples of 1/4 and the spans are small integers, so 1.0 - d and 1.0 + d are
\* exact in binary floating point and the rounded quotient seq1Span / seq2Span
\* compares with them as the exact quotient does.

\* operator <= in place of <
LessOrEqual(a, b) ==
    IF a.den * b.den > 0 THEN a.num * b.den <= b.num * a.den
    ELSE a.num * b.den >= b.num * a.den

\* operator < on two doubles
Less(a, b) ==
    IF a.den * b.den > 0 THEN a.num * b.den < b.num * a.den
    ELSE a.num * b.den > b.num * a.den

\* line 91
minRatio(discrepancy) == Quotient(discrepancy.den - discrepancy.num, discrepancy.den)

\* line 92
maxRatio(discrepancy) == Quotient(discrepancy.den + discrepancy.num, discrepancy.den)

\* line 93
ratioOutside(span1, span2, discrepancy) ==
    \/ Less(Quotient(span1, span2), minRatio(discrepancy))
    \/ Less(maxRatio(discrepancy), Quotient(span1, span2))

\* Seed<Simple>: begin and end position on seq1 (H) and on seq2 (V)
Seeds ==
    {sd \in [beginH : 0..MaxPos, endH : 0..MaxPos, beginV : 0..MaxPos, endV : 0..MaxPos] :
        sd.beginH <= sd.endH /\ sd.beginV <= sd.endV}

\* what chainSeedsGlobally returns: seeds in increasing order on both axes
SeedChains ==
    {<<>>} \cup {<<sd>> : sd \in Seeds}
           \cup {ch \in Seeds \X Seeds :
                    ch[1].endH <= ch[2].beginH /\ ch[1].endV <= ch[2].beginV}

Discrepancies == {Quotient(n, 4) : n \in (0 - 1)..MaxAldNum}

\* line 80: the seed chain has been built
InitFilter ==
    /\ pc = "chained"
    /\ result = NoResult
    /\ seedChain \in SeedChains
    /\ allowedLengthDiscrepancy \in Discrepancies
    /\ seq1Span = Unset
    /\ seq2Span = Unset
    /\ KmerStageIdle
    /\ CigarStageIdle

\* lines 83-84
RejectEmptyChain ==
    /\ pc = "chained"
    /\ Len(seedChain) = 0
    /\ result' = EmptyString
    /\ pc' = "done"
    /\ UNCHANGED <<kmerVars, filterVars, cigarVars>>

\* lines 85-94
CheckChainSpans ==
    /\ pc = "chained"
    /\ Len(seedChain) # 0
    /\ LET seedsInChain == Len(seedChain)
           span1 == seedChain[seedsInChain].endH - seedChain[1].beginH
           span2 == seedChain[seedsInChain].endV - seedChain[1].beginV
       IN  /\ seq1Span' = span1
           /\ seq2Span' = span2
           /\ IF span2 = 0 \/ ratioOutside(span1, span2, allowedLengthDiscrepancy)
              THEN result' = EmptyString /\ pc' = "done"
              ELSE result' = result /\ pc' = "aligning"
    /\ UNCHANGED <<kmerVars, seedChain, allowedLengthDiscrepancy, cigarVars>>

NextFilter == RejectEmptyChain \/ CheckChainSpans

SpecFilter == InitFilter /\ [][NextFilter]_vars

----------------------------------------------------------------------------
(* Claims about the chain filter *)

ChainChecked == pc \in {"done", "aligning"} /\ Len(seedChain) > 0

Rejected == pc = "done" /\ result = EmptyString /\ CigarStageIdle

Accepted == pc = "aligning" /\ result = NoResult

FirstSeed == seedChain[1]

LastSeed == seedChain[Len(seedChain)]

SpanH == LastSeed.endH - FirstSeed.beginH

SpanV == LastSeed.endV - FirstSeed.beginV

\* with d = n/m and SpanV > 0:  1 - d <= SpanH / SpanV <= 1 + d
WithinTolerance ==
    LET n == allowedLengthDiscrepancy.num
        m == allowedLengthDiscrepancy.den
    IN  /\ (m - n) * SpanV <= m * SpanH
        /\ m * SpanH <= (m + n) * SpanV

\* C5: for a non-empty seed chain semiGlobalAlign returns the empty string,
\* without aligning or building a record, exactly when seq2Span = 0 or
\* seq1Span/seq2Span lies below 1 - allowedLengthDiscrepancy or above
\* 1 + allowedLengthDiscrepancy; a ratio equal to either limit is accepted.
C5_ChainPlausibilityFilter ==
    ChainChecked =>
        /\ Rejected \/ Accepted
        /\ Rejected <=> (SpanV = 0 \/ ~WithinTolerance)

\* accepted with the ratio exactly at the lower limit
C5_Witness ==
    /\ ChainChecked /\ Accepted
    /\ allowedLengthDiscrepancy.num > 0
    /\ allowedLengthDiscrepancy.num < allowedLengthDiscrepancy.den
    /\ allowedLengthDiscrepancy.den * SpanH
           = (allowedLengthDiscrepancy.den - allowedLengthDiscrepancy.num) * SpanV

====
